---- MODULE Spec2Model ----
(***************************************************************************)
(* The editing core of pigmora-wasm: the Document (layers of elements and  *)
(* the id allocator), the Command/History undo-redo log, and the           *)
(* PigmoraEngine controller (selection, drag-transform transaction and the *)
(* projection of the scene handed to the renderer).                        *)
(*                                                                         *)
(* Conventions.  Option<T> is a sequence of length 0 (None) or 1 (Some).   *)
(* Vec indices are 0-based as in the source; Sequences are 1-based, so     *)
(* element i of a Vec is s[i + 1].  f32 values are small integers.  u32    *)
(* ids live in 0..U32Max, U32Max standing for u32::MAX.  Every handler is  *)
(* an operator from the engine record to [e |-> engine, ret |-> result],   *)
(* and one action per handler applies it.                                  *)
(***************************************************************************)
EXTENDS Integers, Sequences, FiniteSets, TLC

VARIABLES document, history, selected_element_id, transform_snapshot,
          track, origin, drag, issued

vars == <<document, history, selected_element_id, transform_snapshot,
          track, origin, drag, issued>>

\* ------------------------------------------------------------------ bounds

\* The largest value of the id type (u32::MAX at the model's scale).
U32Max == 6

\* Allocating operations are enabled while next_id is at most this, and at
\* U32Max, where the counter overflows.
MaxNextId == 3

\* Recording operations are enabled while the undo stack is shorter.
MaxHistory == 2

\* ------------------------------------------------------------- primitives

None == <<>>

Some(v) == <<v>>

Ids == 0..U32Max

\* no lower bound
no_clamp(v) == v

\* f32::max(v, 1.0)
max1(v) == IF v < 1 THEN 1 ELSE v

Transform2D_new(x, y, width, height) ==
    [x |-> x, y |-> y, width |-> width, height |-> height, rotation |-> 0]

ShapeElement_rectangle ==
    [shape_type |-> "Rect", fill |-> Some("0.86,0.42,0.25,1.0"), stroke |-> None]

TextElement_new(content) ==
    [content |-> content, font_family |-> "system-ui", font_size |-> 24,
     fill |-> "0.1,0.1,0.1,1.0"]

ImageElement_new ==
    [source |-> "", filters |-> "default"]

Element_new(id, name, transform, data) ==
    [id |-> id, name |-> name, transform |-> transform, data |-> data]

Element_shape(id, name, shape, transform) ==
    Element_new(id, name, transform, [tag |-> "Shape", shape |-> shape])

Element_text(id, name, text, transform) ==
    Element_new(id, name, transform, [tag |-> "Text", text |-> text])

Element_image(id, name, image, transform) ==
    Element_new(id, name, transform, [tag |-> "Image", image |-> image])

Layer_new(id, name) ==
    [id |-> id, name |-> name, visible |-> TRUE, locked |-> FALSE, elements |-> <<>>]

\* ------------------------------------------------------------ Vec helpers

\* Vec::insert(i, e), i 0-based and i <= len
VecInsert(s, i, e) == SubSeq(s, 1, i) \o <<e>> \o SubSeq(s, i + 1, Len(s))

\* Vec::remove(i), i 0-based and i < len
VecRemove(s, i) == SubSeq(s, 1, i) \o SubSeq(s, i + 2, Len(s))

\* iter().position(|el| el.id == id): the 0-based index of the first match
position(s, id) ==
    IF \E k \in 1..Len(s) : s[k].id = id
    THEN Some((CHOOSE k \in 1..Len(s) :
                  s[k].id = id /\ \A j \in 1..(k - 1) : s[j].id # id) - 1)
    ELSE None

Min(a, b) == IF a < b THEN a ELSE b

\* --------------------------------------------------------------- Document

Document_new ==
    [layers |-> <<Layer_new(1, "Layer 1")>>, active_layer_id |-> 1, next_id |-> 2]

\* self.next_id += 1 on a u32: at u32::MAX a build without overflow checks
\* wraps to 0 and a build with them panics before the store.  build is
\* "wrap" or "panic"; the result says whether the call panicked.
next_element_id(doc, build) ==
    IF doc.next_id = U32Max
    THEN IF build = "wrap"
         THEN [doc |-> [doc EXCEPT !.next_id = 0], id |-> doc.next_id, panic |-> FALSE]
         ELSE [doc |-> doc, id |-> doc.next_id, panic |-> TRUE]
    ELSE [doc |-> [doc EXCEPT !.next_id = doc.next_id + 1], id |-> doc.next_id,
          panic |-> FALSE]

\* the 1-based position of the first layer whose id is layer_id, 0 if none
find_layer(doc, layer_id) ==
    IF \E k \in 1..Len(doc.layers) : doc.layers[k].id = layer_id
    THEN CHOOSE k \in 1..Len(doc.layers) :
            doc.layers[k].id = layer_id
            /\ \A j \in 1..(k - 1) : doc.layers[j].id # layer_id
    ELSE 0

\* the 1-based position of the first layer holding an element with this id
find_layer_of(doc, element_id) ==
    IF \E k \in 1..Len(doc.layers) : position(doc.layers[k].elements, element_id) # None
    THEN CHOOSE k \in 1..Len(doc.layers) :
            position(doc.layers[k].elements, element_id) # None
            /\ \A j \in 1..(k - 1) : position(doc.layers[j].elements, element_id) = None
    ELSE 0

SeqMax(s) == IF s = <<>> THEN 0
             ELSE CHOOSE m \in {s[k] : k \in 1..Len(s)} :
                     \A k \in 1..Len(s) : s[k] <= m

\* the greatest layer id and element id of the document, 0 when there is none
max_id_of(doc) ==
    SeqMax([k \in 1..Len(doc.layers) |->
              LET l == doc.layers[k]
              IN  IF l.id > SeqMax([j \in 1..Len(l.elements) |-> l.elements[j].id])
                  THEN l.id
                  ELSE SeqMax([j \in 1..Len(l.elements) |-> l.elements[j].id])])

\* u32::saturating_add(1)
saturating_add1(v) == IF v = U32Max THEN U32Max ELSE v + 1

\* recalculate_next_id without the layer it makes for an empty document
recalculate_next_id_no_layer(doc) ==
    [doc EXCEPT !.next_id = saturating_add1(max_id_of(doc))]

recalculate_next_id(doc) ==
    LET d1 == [doc EXCEPT !.next_id = saturating_add1(max_id_of(doc))]
    IN  IF d1.layers = <<>>
        THEN LET r == next_element_id(d1, "wrap")
             IN  [r.doc EXCEPT !.layers = <<Layer_new(r.id, "Layer 1")>>,
                               !.active_layer_id = r.id]
        ELSE d1

add_layer(doc, name, build) ==
    LET r == next_element_id(doc, build)
    IN  IF r.panic THEN r
        ELSE [doc |-> [r.doc EXCEPT !.layers = Append(r.doc.layers, Layer_new(r.id, name))],
              id |-> r.id, panic |-> FALSE]

\* insert_element_at appending instead of inserting at the index
insert_element_at_append(doc, layer_id, index, element) ==
    LET k == find_layer(doc, layer_id)
    IN  IF k # 0
        THEN [doc |-> [doc EXCEPT !.layers[k].elements = Append(doc.layers[k].elements, element)],
              ret |-> TRUE]
        ELSE [doc |-> doc, ret |-> FALSE]

\* insert_element_at placing the element first
insert_element_at_front(doc, layer_id, index, element) ==
    LET k == find_layer(doc, layer_id)
    IN  IF k # 0
        THEN [doc |-> [doc EXCEPT !.layers[k].elements =
                          VecInsert(doc.layers[k].elements, 0, element)],
              ret |-> TRUE]
        ELSE [doc |-> doc, ret |-> FALSE]

insert_element_at(doc, layer_id, index, element) ==
    LET k == find_layer(doc, layer_id)
    IN  IF k # 0
        THEN LET insert_index == Min(index, Len(doc.layers[k].elements))
             IN  [doc |-> [doc EXCEPT !.layers[k].elements =
                              VecInsert(doc.layers[k].elements, insert_index, element)],
                  ret |-> TRUE]
        ELSE [doc |-> doc, ret |-> FALSE]

push_element(doc, layer_id, element) ==
    LET k == find_layer(doc, layer_id)
    IN  IF k # 0
        THEN [doc |-> [doc EXCEPT !.layers[k].elements = Append(doc.layers[k].elements, element)],
              ret |-> Some(Len(doc.layers[k].elements))]
        ELSE [doc |-> doc, ret |-> None]

remove_element_by_id(doc, element_id) ==
    LET k == find_layer_of(doc, element_id)
    IN  IF k # 0
        THEN LET index == position(doc.layers[k].elements, element_id)[1]
             IN  [doc |-> [doc EXCEPT !.layers[k].elements =
                              VecRemove(doc.layers[k].elements, index)],
                  ret |-> Some([layer_id |-> doc.layers[k].id, index |-> index,
                                element |-> doc.layers[k].elements[index + 1]])]
        ELSE [doc |-> doc, ret |-> None]

replace_element_by_id(doc, element_id, element) ==
    LET k == find_layer_of(doc, element_id)
    IN  IF k # 0
        THEN LET index == position(doc.layers[k].elements, element_id)[1]
             IN  [doc |-> [doc EXCEPT !.layers[k].elements[index + 1] = element],
                  ret |-> TRUE]
        ELSE [doc |-> doc, ret |-> FALSE]

\* replace_element_at writing the slot without comparing ids
replace_element_at_unchecked(doc, layer_id, index, element) ==
    LET k == find_layer(doc, layer_id)
    IN  IF k # 0 /\ index < Len(doc.layers[k].elements)
        THEN [doc |-> [doc EXCEPT !.layers[k].elements[index + 1] = element],
              ret |-> TRUE]
        ELSE replace_element_by_id(doc, element.id, element)

replace_element_at(doc, layer_id, index, element) ==
    LET k == find_layer(doc, layer_id)
    IN  IF k # 0 /\ index < Len(doc.layers[k].elements)
           /\ doc.layers[k].elements[index + 1].id = element.id
        THEN [doc |-> [doc EXCEPT !.layers[k].elements[index + 1] = element],
              ret |-> TRUE]
        ELSE replace_element_by_id(doc, element.id, element)

\* ---------------------------------------------------------- ElementUpdate

NoUpdate ==
    [name |-> None, x |-> None, y |-> None, width |-> None, height |-> None,
     rotation |-> None, content |-> None, font_family |-> None,
     font_size |-> None, fill |-> None]

apply_to_transform(update, t) ==
    [x        |-> IF update.x # None THEN update.x[1] ELSE t.x,
     y        |-> IF update.y # None THEN update.y[1] ELSE t.y,
     width    |-> IF update.width # None THEN max1(update.width[1]) ELSE t.width,
     height   |-> IF update.height # None THEN max1(update.height[1]) ELSE t.height,
     rotation |-> IF update.rotation # None THEN update.rotation[1] ELSE t.rotation]

apply_to_text(update, text) ==
    [content     |-> IF update.content # None THEN update.content[1] ELSE text.content,
     font_family |-> IF update.font_family # None THEN update.font_family[1]
                     ELSE text.font_family,
     font_size   |-> IF update.font_size # None THEN max1(update.font_size[1])
                     ELSE text.font_size,
     fill        |-> IF update.fill # None THEN update.fill[1] ELSE text.fill]

\* apply_to writing the fill of a Shape as well
apply_to_shape_fill(update, element) ==
    [id        |-> element.id,
     name      |-> IF update.name # None THEN update.name[1] ELSE element.name,
     transform |-> apply_to_transform(update, element.transform),
     data      |-> IF element.data.tag = "Text"
                   THEN [tag |-> "Text", text |-> apply_to_text(update, element.data.text)]
                   ELSE IF element.data.tag = "Shape" /\ update.fill # None
                   THEN [element.data EXCEPT !.shape.fill = update.fill]
                   ELSE element.data]

apply_to(update, element) ==
    [id        |-> element.id,
     name      |-> IF update.name # None THEN update.name[1] ELSE element.name,
     transform |-> apply_to_transform(update, element.transform),
     data      |-> IF element.data.tag = "Text"
                   THEN [tag |-> "Text", text |-> apply_to_text(update, element.data.text)]
                   ELSE element.data]

\* ------------------------------------------------- Document (continued)

apply_update(doc, element_id, update) ==
    LET k == find_layer_of(doc, element_id)
    IN  IF k # 0
        THEN LET index  == position(doc.layers[k].elements, element_id)[1]
                 before == doc.layers[k].elements[index + 1]
                 after  == apply_to(update, before)
             IN  [doc |-> [doc EXCEPT !.layers[k].elements[index + 1] = after],
                  ret |-> Some([layer_id |-> doc.layers[k].id, index |-> index,
                                before |-> before, after |-> after])]
        ELSE [doc |-> doc, ret |-> None]

set_element_transform(doc, element_id, transform) ==
    LET k == find_layer_of(doc, element_id)
    IN  IF k # 0
        THEN LET index == position(doc.layers[k].elements, element_id)[1]
             IN  [doc |-> [doc EXCEPT !.layers[k].elements[index + 1].transform = transform],
                  ret |-> TRUE]
        ELSE [doc |-> doc, ret |-> FALSE]

get_element_transform(doc, element_id) ==
    LET k == find_layer_of(doc, element_id)
    IN  IF k # 0
        THEN Some(doc.layers[k].elements[position(doc.layers[k].elements, element_id)[1] + 1]
                     .transform)
        ELSE None

\* the elements of all layers, in layer order and then element order
RECURSIVE flatten(_)
flatten(layers) ==
    IF layers = <<>> THEN <<>>
    ELSE Head(layers).elements \o flatten(Tail(layers))

find_first_shape(doc) ==
    LET all == flatten(doc.layers)
    IN  IF \E k \in 1..Len(all) : all[k].data.tag = "Shape"
        THEN Some(all[CHOOSE k \in 1..Len(all) :
                         all[k].data.tag = "Shape"
                         /\ \A j \in 1..(k - 1) : all[j].data.tag # "Shape"].id)
        ELSE None

ensure_primary_shape(doc, transform, build) ==
    IF find_first_shape(doc) # None
    THEN [doc |-> set_element_transform(doc, find_first_shape(doc)[1], transform).doc,
          id |-> find_first_shape(doc)[1], panic |-> FALSE]
    ELSE LET r       == next_element_id(doc, build)
             element == Element_shape(r.id, "Rectangle", ShapeElement_rectangle, transform)
             pushed  == push_element(r.doc, r.doc.active_layer_id, element)
         IN  IF r.panic THEN r
             ELSE IF pushed.ret # None
             THEN [doc |-> pushed.doc, id |-> r.id, panic |-> FALSE]
             ELSE LET l == add_layer(r.doc, "Layer 1", build)
                  IN  IF l.panic THEN [doc |-> l.doc, id |-> r.id, panic |-> TRUE]
                      ELSE [doc |-> push_element([l.doc EXCEPT !.active_layer_id = l.id],
                                                 l.id, element).doc,
                            id |-> r.id, panic |-> FALSE]

\* The four lookups below are called by the controller; their bodies follow
\* the contract of the design document (first match in layer order).

get_element_by_id(doc, element_id) ==
    LET k == find_layer_of(doc, element_id)
    IN  IF k # 0
        THEN Some(doc.layers[k].elements[position(doc.layers[k].elements, element_id)[1] + 1])
        ELSE None

\* get_element_by_id_mut followed by a store through the reference: f maps
\* the element found to the element written back
get_element_by_id_mut(doc, element_id, written) ==
    LET k == find_layer_of(doc, element_id)
    IN  [doc EXCEPT !.layers[k].elements[position(doc.layers[k].elements, element_id)[1] + 1]
                       = written]

find_element_location(doc, element_id) ==
    LET k == find_layer_of(doc, element_id)
    IN  IF k # 0
        THEN Some([layer_id |-> doc.layers[k].id,
                   index |-> position(doc.layers[k].elements, element_id)[1]])
        ELSE None

contains_point(element, x, y) ==
    /\ element.transform.x <= x /\ x <= element.transform.x + element.transform.width
    /\ element.transform.y <= y /\ y <= element.transform.y + element.transform.height

\* the topmost element under the point: the last visible, unlocked layer
\* holding a hit, and in it the greatest index
hit_test(doc, x, y) ==
    LET hits(l) == {j \in 1..Len(l.elements) : contains_point(l.elements[j], x, y)}
        cand    == {k \in 1..Len(doc.layers) :
                       doc.layers[k].visible /\ ~doc.layers[k].locked
                       /\ hits(doc.layers[k]) # {}}
    IN  IF cand = {} THEN None
        ELSE LET k == CHOOSE k \in cand : \A k2 \in cand : k2 <= k
                 j == CHOOSE j \in hits(doc.layers[k]) :
                         \A j2 \in hits(doc.layers[k]) : j2 <= j
             IN  Some(doc.layers[k].elements[j].id)

\* ---------------------------------------------------------------- Command

AddElement(layer_id, index, element) ==
    [kind |-> "AddElement", layer_id |-> layer_id, index |-> index, element |-> element]

DeleteElement(layer_id, index, element) ==
    [kind |-> "DeleteElement", layer_id |-> layer_id, index |-> index, element |-> element]

UpdateElement(layer_id, index, before, after) ==
    [kind |-> "UpdateElement", layer_id |-> layer_id, index |-> index,
     before |-> before, after |-> after]

Command_apply(command, doc) ==
    CASE command.kind = "AddElement" ->
            insert_element_at(doc, command.layer_id, command.index, command.element)
      [] command.kind = "DeleteElement" ->
            LET r == remove_element_by_id(doc, command.element.id)
            IN  [doc |-> r.doc, ret |-> r.ret # None]
      [] command.kind = "UpdateElement" ->
            replace_element_at(doc, command.layer_id, command.index, command.after)

Command_undo(command, doc) ==
    CASE command.kind = "AddElement" ->
            LET r == remove_element_by_id(doc, command.element.id)
            IN  [doc |-> r.doc, ret |-> r.ret # None]
      [] command.kind = "DeleteElement" ->
            insert_element_at(doc, command.layer_id, command.index, command.element)
      [] command.kind = "UpdateElement" ->
            replace_element_at(doc, command.layer_id, command.index, command.before)

\* ---------------------------------------------------------------- History

History_new == [undo_stack |-> <<>>, redo_stack |-> <<>>]

History_clear(h) == [undo_stack |-> <<>>, redo_stack |-> <<>>]

\* History::record keeping the redo stack
History_record_keep_redo(h, command) ==
    [undo_stack |-> Append(h.undo_stack, command), redo_stack |-> h.redo_stack]

History_record(h, command) ==
    [undo_stack |-> Append(h.undo_stack, command), redo_stack |-> <<>>]

Pop(s) == SubSeq(s, 1, Len(s) - 1)

Top(s) == s[Len(s)]

\* History::undo putting a command that failed back on the undo stack
History_undo_restore(h, doc) ==
    IF h.undo_stack = <<>> THEN [h |-> h, doc |-> doc, ret |-> FALSE]
    ELSE LET r == Command_undo(Top(h.undo_stack), doc)
         IN  IF r.ret
             THEN [h |-> [undo_stack |-> Pop(h.undo_stack),
                          redo_stack |-> Append(h.redo_stack, Top(h.undo_stack))],
                   doc |-> r.doc, ret |-> TRUE]
             ELSE [h |-> h, doc |-> doc, ret |-> FALSE]

History_undo(h, doc) ==
    IF h.undo_stack # <<>>
    THEN LET command == Top(h.undo_stack)
             popped  == [h EXCEPT !.undo_stack = Pop(h.undo_stack)]
             r       == Command_undo(command, doc)
         IN  IF r.ret
             THEN [h |-> [popped EXCEPT !.redo_stack = Append(h.redo_stack, command)],
                   doc |-> r.doc, ret |-> TRUE]
             ELSE [h |-> popped, doc |-> r.doc, ret |-> FALSE]
    ELSE [h |-> h, doc |-> doc, ret |-> FALSE]

History_redo(h, doc) ==
    IF h.redo_stack # <<>>
    THEN LET command == Top(h.redo_stack)
             popped  == [h EXCEPT !.redo_stack = Pop(h.redo_stack)]
             r       == Command_apply(command, doc)
         IN  IF r.ret
             THEN [h |-> [popped EXCEPT !.undo_stack = Append(h.undo_stack, command)],
                   doc |-> r.doc, ret |-> TRUE]
             ELSE [h |-> popped, doc |-> r.doc, ret |-> FALSE]
    ELSE [h |-> h, doc |-> doc, ret |-> FALSE]

\* ---------------------------------------------------------- PigmoraEngine

\* the engine as one record, the argument and result of every handler
Engine ==
    [document |-> document, history |-> history,
     selected_element_id |-> selected_element_id,
     transform_snapshot |-> transform_snapshot]

Engine_new ==
    [document |-> Document_new, history |-> History_new,
     selected_element_id |-> None, transform_snapshot |-> None]

\* sync_selection keeping the selection whatever the document holds
sync_selection_skip(e) == e

sync_selection(e) ==
    IF e.selected_element_id = None THEN e
    ELSE IF get_element_transform(e.document, e.selected_element_id[1]) = None
         THEN [e EXCEPT !.selected_element_id = find_first_shape(e.document)]
         ELSE e

set_rect(e, x, y, width, height, build) ==
    LET transform == Transform2D_new(x, y, width, height)
    IN  IF e.selected_element_id # None
        THEN [e |-> [e EXCEPT !.document =
                        set_element_transform(e.document, e.selected_element_id[1],
                                              transform).doc],
              ret |-> "unit"]
        ELSE LET r == ensure_primary_shape(e.document, transform, build)
             IN  IF r.panic
                 THEN [e |-> [e EXCEPT !.document = r.doc], ret |-> "panic"]
                 ELSE [e |-> [e EXCEPT !.document = r.doc,
                                       !.selected_element_id = Some(r.id)],
                       ret |-> "unit"]

\* value.ok is FALSE for a payload that does not deserialize
load_document(e, value) ==
    IF ~value.ok THEN [e |-> e, ret |-> "Err"]
    ELSE LET doc == recalculate_next_id(value.doc)
         IN  [e |-> sync_selection(
                      [e EXCEPT !.document = doc,
                                !.history = History_clear(e.history),
                                !.selected_element_id = find_first_shape(doc)]),
              ret |-> "Ok"]

Engine_undo(e) ==
    LET r  == History_undo(e.history, e.document)
        e1 == [e EXCEPT !.history = r.h, !.document = r.doc]
    IN  IF r.ret THEN [e |-> sync_selection(e1), ret |-> "true"]
        ELSE [e |-> e1, ret |-> "false"]

Engine_redo(e) ==
    LET r  == History_redo(e.history, e.document)
        e1 == [e EXCEPT !.history = r.h, !.document = r.doc]
    IN  IF r.ret THEN [e |-> sync_selection(e1), ret |-> "true"]
        ELSE [e |-> e1, ret |-> "false"]

parse_shape_type(shape_type) ==
    CASE shape_type \in {"rect", "rectangle"} -> Some("Rect")
      [] shape_type = "ellipse" -> Some("Ellipse")
      [] shape_type = "line" -> Some("Line")
      [] shape_type = "polygon" -> Some("Polygon")
      [] OTHER -> None

\* the tail shared by add_shape, add_text and add_image once the id is
\* allocated (doc is the document after next_element_id): push onto the
\* active layer, record AddElement, select the new element
\* the same tail falling back to the first layer when the active one is
\* missing
push_and_record_first_layer(e, doc, element) ==
    LET layer_id == IF find_layer(doc, doc.active_layer_id) # 0 THEN doc.active_layer_id
                    ELSE doc.layers[1].id
        pushed   == push_element(doc, layer_id, element)
    IN  [e |-> sync_selection(
                 [e EXCEPT !.document = pushed.doc,
                           !.history = History_record(e.history,
                                          AddElement(layer_id, pushed.ret[1], element)),
                           !.selected_element_id = Some(element.id)]),
         ret |-> "Ok", id |-> element.id]

push_and_record(e, doc, element) ==
    LET layer_id == doc.active_layer_id
        pushed   == push_element(doc, layer_id, element)
    IN  IF pushed.ret = None
        THEN [e |-> [e EXCEPT !.document = doc], ret |-> "Layer not found"]
        ELSE [e |-> sync_selection(
                      [e EXCEPT !.document = pushed.doc,
                                !.history = History_record(e.history,
                                               AddElement(layer_id, pushed.ret[1], element)),
                                !.selected_element_id = Some(element.id)]),
              ret |-> "Ok", id |-> element.id]

add_shape(e, shape_type, x, y, build) ==
    IF parse_shape_type(shape_type) = None
    THEN [e |-> e, ret |-> "Unknown shape type"]
    ELSE LET r == next_element_id(e.document, build)
         IN  IF r.panic THEN [e |-> e, ret |-> "panic"]
             ELSE push_and_record(e, r.doc,
                     Element_shape(r.id, "Shape",
                         [ShapeElement_rectangle EXCEPT
                             !.shape_type = parse_shape_type(shape_type)[1]],
                         Transform2D_new(x, y, 160, 120)))

add_text(e, content, x, y, build) ==
    LET r == next_element_id(e.document, build)
    IN  IF r.panic THEN [e |-> e, ret |-> "panic"]
        ELSE push_and_record(e, r.doc,
                Element_text(r.id, "Text", TextElement_new(content),
                             Transform2D_new(x, y, 240, 80)))

add_image(e, x, y, build) ==
    LET r == next_element_id(e.document, build)
    IN  IF r.panic THEN [e |-> e, ret |-> "panic"]
        ELSE push_and_record(e, r.doc,
                Element_image(r.id, "Image", ImageElement_new,
                              Transform2D_new(x, y, 320, 200)))

\* delete_element without the record
delete_element_unrecorded(e, element_id) ==
    LET r == remove_element_by_id(e.document, element_id)
    IN  IF r.ret # None
        THEN LET e1 == [e EXCEPT !.document = r.doc]
                 e2 == IF e.selected_element_id = Some(element_id)
                       THEN [e1 EXCEPT !.selected_element_id = find_first_shape(r.doc)]
                       ELSE e1
             IN  [e |-> sync_selection(e2), ret |-> "true"]
        ELSE [e |-> e, ret |-> "false"]

\* delete_element dropping the selection when it deletes the selected element
delete_element_deselect(e, element_id) ==
    LET r == remove_element_by_id(e.document, element_id)
    IN  IF r.ret # None
        THEN LET e1 == [e EXCEPT !.document = r.doc,
                                 !.history = History_record(e.history,
                                     DeleteElement(r.ret[1].layer_id, r.ret[1].index,
                                                   r.ret[1].element))]
                 e2 == IF e.selected_element_id = Some(element_id)
                       THEN [e1 EXCEPT !.selected_element_id = None]
                       ELSE e1
             IN  [e |-> sync_selection(e2), ret |-> "true"]
        ELSE [e |-> e, ret |-> "false"]

delete_element(e, element_id) ==
    LET r == remove_element_by_id(e.document, element_id)
    IN  IF r.ret # None
        THEN LET e1 == [e EXCEPT !.document = r.doc,
                                 !.history = History_record(e.history,
                                     DeleteElement(r.ret[1].layer_id, r.ret[1].index,
                                                   r.ret[1].element))]
                 e2 == IF e.selected_element_id = Some(element_id)
                       THEN [e1 EXCEPT !.selected_element_id = find_first_shape(r.doc)]
                       ELSE e1
             IN  [e |-> sync_selection(e2), ret |-> "true"]
        ELSE [e |-> e, ret |-> "false"]

\* update_element recording only an update that changed the element
update_element_skip_unchanged(e, element_id, props) ==
    IF ~props.ok THEN [e |-> e, ret |-> "Err"]
    ELSE LET r == apply_update(e.document, element_id, props.update)
         IN  IF r.ret # None
             THEN LET e1 == [e EXCEPT !.document = r.doc,
                                      !.history =
                                          IF r.ret[1].before = r.ret[1].after
                                          THEN e.history
                                          ELSE History_record(e.history,
                                                   UpdateElement(r.ret[1].layer_id,
                                                                 r.ret[1].index,
                                                                 r.ret[1].before,
                                                                 r.ret[1].after))]
                  IN  [e |-> IF e.selected_element_id = Some(element_id)
                             THEN sync_selection(e1) ELSE e1,
                       ret |-> "true"]
             ELSE [e |-> e, ret |-> "false"]

\* props.ok is FALSE for a payload that does not deserialize
update_element(e, element_id, props) ==
    IF ~props.ok THEN [e |-> e, ret |-> "Err"]
    ELSE LET r == apply_update(e.document, element_id, props.update)
         IN  IF r.ret # None
             THEN LET e1 == [e EXCEPT !.document = r.doc,
                                      !.history = History_record(e.history,
                                          UpdateElement(r.ret[1].layer_id, r.ret[1].index,
                                                        r.ret[1].before, r.ret[1].after))]
                  IN  [e |-> IF e.selected_element_id = Some(element_id)
                             THEN sync_selection(e1) ELSE e1,
                       ret |-> "true"]
             ELSE [e |-> e, ret |-> "false"]

select_at(e, x, y) ==
    [e |-> [e EXCEPT !.selected_element_id = hit_test(e.document, x, y)],
     ret |-> IF hit_test(e.document, x, y) = None THEN "None" ELSE "Some"]

\* select_element dropping the selection when the id is not found
select_element_clear(e, element_id) ==
    IF get_element_by_id(e.document, element_id) # None
    THEN [e |-> [e EXCEPT !.selected_element_id = Some(element_id)], ret |-> "true"]
    ELSE [e |-> [e EXCEPT !.selected_element_id = None], ret |-> "false"]

select_element(e, element_id) ==
    IF get_element_by_id(e.document, element_id) # None
    THEN [e |-> [e EXCEPT !.selected_element_id = Some(element_id)], ret |-> "true"]
    ELSE [e |-> e, ret |-> "false"]

\* begin_transform keeping the snapshot of a drag that is already open
begin_transform_keep(e) ==
    IF e.selected_element_id = None THEN [e |-> e, ret |-> "false"]
    ELSE IF get_element_by_id(e.document, e.selected_element_id[1]) = None
    THEN [e |-> e, ret |-> "false"]
    ELSE IF e.transform_snapshot # None THEN [e |-> e, ret |-> "true"]
    ELSE [e |-> [e EXCEPT !.transform_snapshot =
                    Some([element_id |-> e.selected_element_id[1],
                          before |-> get_element_by_id(e.document,
                                                       e.selected_element_id[1])[1]])],
          ret |-> "true"]

begin_transform(e) ==
    IF e.selected_element_id = None THEN [e |-> e, ret |-> "false"]
    ELSE IF get_element_by_id(e.document, e.selected_element_id[1]) = None
    THEN [e |-> e, ret |-> "false"]
    ELSE [e |-> [e EXCEPT !.transform_snapshot =
                    Some([element_id |-> e.selected_element_id[1],
                          before |-> get_element_by_id(e.document,
                                                       e.selected_element_id[1])[1]])],
          ret |-> "true"]

\* update_selected_transform recording every live update
update_selected_transform_recorded(e, x, y, width, height) ==
    IF e.selected_element_id = None THEN [e |-> e, ret |-> "false"]
    ELSE LET found    == get_element_by_id(e.document, e.selected_element_id[1])
             location == find_element_location(e.document, e.selected_element_id[1])
             written  == [found[1] EXCEPT !.transform.x = x,
                                          !.transform.y = y,
                                          !.transform.width = max1(width),
                                          !.transform.height = max1(height)]
         IN  IF found # None
             THEN [e |-> [e EXCEPT !.document =
                             get_element_by_id_mut(e.document, e.selected_element_id[1],
                                                   written),
                                   !.history = History_record(e.history,
                                       UpdateElement(location[1].layer_id, location[1].index,
                                                     found[1], written))],
                   ret |-> "true"]
             ELSE [e |-> e, ret |-> "false"]

update_selected_transform(e, x, y, width, height) ==
    IF e.selected_element_id = None THEN [e |-> e, ret |-> "false"]
    ELSE LET found == get_element_by_id(e.document, e.selected_element_id[1])
         IN  IF found # None
             THEN [e |-> [e EXCEPT !.document =
                             get_element_by_id_mut(e.document, e.selected_element_id[1],
                                 [found[1] EXCEPT !.transform.x = x,
                                                  !.transform.y = y,
                                                  !.transform.width = max1(width),
                                                  !.transform.height = max1(height)])],
                   ret |-> "true"]
             ELSE [e |-> e, ret |-> "false"]

\* update_selected_text_size recording the change as update_element does
update_selected_text_size_recorded(e, font_size) ==
    IF e.selected_element_id = None THEN [e |-> e, ret |-> "false"]
    ELSE LET found == get_element_by_id(e.document, e.selected_element_id[1])
             place == find_element_location(e.document, e.selected_element_id[1])
         IN  IF found # None /\ found[1].data.tag = "Text"
             THEN LET after == [found[1] EXCEPT !.data.text.font_size = max1(font_size)]
                  IN  [e |-> [e EXCEPT !.document =
                                 get_element_by_id_mut(e.document,
                                                       e.selected_element_id[1], after),
                                       !.history = History_record(e.history,
                                           UpdateElement(place[1].layer_id, place[1].index,
                                                         found[1], after))],
                       ret |-> "true"]
             ELSE [e |-> e, ret |-> "false"]

update_selected_text_size(e, font_size) ==
    IF e.selected_element_id = None THEN [e |-> e, ret |-> "false"]
    ELSE LET found == get_element_by_id(e.document, e.selected_element_id[1])
         IN  IF found # None /\ found[1].data.tag = "Text"
             THEN [e |-> [e EXCEPT !.document =
                             get_element_by_id_mut(e.document, e.selected_element_id[1],
                                 [found[1] EXCEPT !.data.text.font_size = max1(font_size)])],
                   ret |-> "true"]
             ELSE [e |-> e, ret |-> "false"]

\* commit_transform without the comparison of the two transforms
commit_transform_unchecked(e) ==
    IF e.transform_snapshot = None THEN [e |-> e, ret |-> "false"]
    ELSE LET snapshot == e.transform_snapshot[1]
             e1       == [e EXCEPT !.transform_snapshot = None]
             after    == get_element_by_id(e.document, snapshot.element_id)
             location == find_element_location(e.document, snapshot.element_id)
         IN  IF after = None THEN [e |-> e1, ret |-> "false"]
             ELSE IF location # None
             THEN [e |-> [e1 EXCEPT !.history = History_record(e.history,
                             UpdateElement(location[1].layer_id, location[1].index,
                                           snapshot.before, after[1]))],
                   ret |-> "true"]
             ELSE [e |-> e1, ret |-> "false"]

\* commit_transform reading the snapshot and clearing it only on a record
commit_transform_keep_snapshot(e) ==
    IF e.transform_snapshot = None THEN [e |-> e, ret |-> "false"]
    ELSE LET snapshot == e.transform_snapshot[1]
             after    == get_element_by_id(e.document, snapshot.element_id)
             location == find_element_location(e.document, snapshot.element_id)
         IN  IF after = None THEN [e |-> e, ret |-> "false"]
             ELSE IF snapshot.before.transform = after[1].transform
             THEN [e |-> e, ret |-> "false"]
             ELSE IF location # None
             THEN [e |-> [e EXCEPT !.transform_snapshot = None,
                                   !.history = History_record(e.history,
                             UpdateElement(location[1].layer_id, location[1].index,
                                           snapshot.before, after[1]))],
                   ret |-> "true"]
             ELSE [e |-> e, ret |-> "false"]

commit_transform(e) ==
    IF e.transform_snapshot = None THEN [e |-> e, ret |-> "false"]
    ELSE LET snapshot == e.transform_snapshot[1]
             e1       == [e EXCEPT !.transform_snapshot = None]
             after    == get_element_by_id(e.document, snapshot.element_id)
             location == find_element_location(e.document, snapshot.element_id)
         IN  IF after = None THEN [e |-> e1, ret |-> "false"]
             ELSE IF snapshot.before.transform = after[1].transform
             THEN [e |-> e1, ret |-> "false"]
             ELSE IF location # None
             THEN [e |-> [e1 EXCEPT !.history = History_record(e.history,
                             UpdateElement(location[1].layer_id, location[1].index,
                                           snapshot.before, after[1]))],
                   ret |-> "true"]
             ELSE [e |-> e1, ret |-> "false"]

\* Rect { x, y, width, height } of a transform
Rect_of(transform) ==
    [x |-> transform.x, y |-> transform.y,
     width |-> transform.width, height |-> transform.height]

\* the ShapeKind drawn for a ShapeType
ShapeKind_of(shape_type) ==
    CASE shape_type = "Rect"    -> "Rect"
      [] shape_type = "Ellipse" -> "Ellipse"
      [] shape_type = "Polygon" -> "Diamond"
      [] shape_type = "Line"    -> "Rect"

\* the RenderShapes pushed while walking elements, in that order
RECURSIVE pushed_rects(_)
pushed_rects(elements) ==
    IF elements = <<>> THEN <<>>
    ELSE LET element == Head(elements)
             rect    == Rect_of(element.transform)
         IN  (CASE element.data.tag = "Shape" ->
                     <<[rect |-> rect,
                        shape |-> ShapeKind_of(element.data.shape.shape_type)]>>
                [] element.data.tag = "Image" -> <<[rect |-> rect, shape |-> "Rect"]>>
                [] OTHER -> <<>>)
             \o pushed_rects(Tail(elements))

\* the value of selected_rect after walking elements: each element with the
\* selected id overwrites it
RECURSIVE last_selected_rect(_, _, _)
last_selected_rect(elements, selected_id, selected_rect) ==
    IF elements = <<>> THEN selected_rect
    ELSE last_selected_rect(Tail(elements), selected_id,
                            IF Some(Head(elements).id) = selected_id
                            THEN Some(Rect_of(Head(elements).transform))
                            ELSE selected_rect)

\* collect_rects walking every layer, the invisible ones too
collect_rects_all_layers(e) ==
    LET walked == flatten(e.document.layers)
    IN  [rects |-> pushed_rects(walked),
         selected_rect |-> last_selected_rect(walked, e.selected_element_id, None)]

collect_rects(e) ==
    LET walked == flatten(SelectSeq(e.document.layers, LAMBDA layer : layer.visible))
    IN  [rects |-> pushed_rects(walked),
         selected_rect |-> last_selected_rect(walked, e.selected_element_id, None)]

\* render hands the projection to the renderer; ret is what it hands over
render(e) == [e |-> e, ret |-> collect_rects(e)]

\* ----------------------------------------------------------------- inputs

Builds == {"wrap", "panic"}

ShapeTypes == {"rect", "hexagon"}

Contents == {"hi"}

\* ids given to delete_element, update_element and select_element
ArgIds == (0..MaxNextId) \cup {U32Max}

\* positions given to add_shape, add_text and add_image
AddPoints == {<<0, 0>>}

\* points given to select_at
HitPoints == {<<4, 4>>, <<900, 900>>}

\* rectangles given to update_selected_transform (x, y, width, height)
DragRects == {<<4, 4, 0, 0>>}

\* sizes given to update_selected_text_size
FontSizes == {0, 30}

\* rectangles given to set_rect
SetRects == {<<4, 4, 1, 1>>}

Updates ==
    {[NoUpdate EXCEPT !.x = Some(4), !.y = Some(4), !.width = Some(0), !.height = Some(0)]}

Props == {[ok |-> FALSE, update |-> NoUpdate]} \cup {[ok |-> TRUE, update |-> u] : u \in Updates}

LoadedShape(id) ==
    Element_shape(id, "Loaded", ShapeElement_rectangle, Transform2D_new(1, 1, 10, 10))

LoadedEllipse(id) ==
    Element_shape(id, "Loaded", [ShapeElement_rectangle EXCEPT !.shape_type = "Ellipse"],
                  Transform2D_new(2, 2, 20, 20))

LoadedImage(id) ==
    Element_image(id, "Loaded", ImageElement_new, Transform2D_new(3, 3, 30, 30))

LoadedText(id) ==
    Element_text(id, "Loaded", TextElement_new("old"), Transform2D_new(1, 1, 10, 10))

\* a snapshot without layers
NoLayers == [layers |-> <<>>, active_layer_id |-> 5, next_id |-> 0]

\* a snapshot whose active_layer_id is the id of no layer
NoActiveLayer ==
    [layers |-> <<[Layer_new(1, "Layer 1") EXCEPT !.elements = <<LoadedText(2)>>]>>,
     active_layer_id |-> 5, next_id |-> 0]

\* a snapshot with an invisible layer and a locked one
Scene ==
    [layers |-> <<[Layer_new(1, "Hidden") EXCEPT !.visible = FALSE,
                                                !.elements = <<LoadedEllipse(4)>>],
                  [Layer_new(3, "Locked") EXCEPT !.locked = TRUE,
                                                !.elements = <<LoadedImage(2)>>]>>,
     active_layer_id |-> 3, next_id |-> 0]

\* documents given to load_document: one holding the largest id, one with
\* two layers of the same id, one without layers, one without its active
\* layer, one with an invisible layer and a locked layer
Snapshots ==
    {[layers |-> <<[Layer_new(1, "Layer 1") EXCEPT !.elements = <<LoadedShape(U32Max)>>]>>,
      active_layer_id |-> 1, next_id |-> 0],
     [layers |-> <<Layer_new(1, "A"),
                   [Layer_new(1, "B") EXCEPT !.elements = <<LoadedText(2)>>]>>,
      active_layer_id |-> 1, next_id |-> 0],
     NoLayers,
     NoActiveLayer,
     Scene}

LoadValues ==
    {[ok |-> FALSE, doc |-> Document_new]} \cup {[ok |-> TRUE, doc |-> d] : d \in Snapshots}

\* ----------------------------------------------------------------- ghosts

\* track: what the behaviour maintains besides the engine: "none",
\*   "origin" (origin), "drag" (latest and replaced of drag) or "base"
\*   (base and updates of drag); it never changes.
\* origin: the layers at the latest state with an empty history, while only
\*   add_*, delete_element, update_element, undo and redo followed it.
\* drag: the bookkeeping of the drag protocol, see NextDrag.
\* issued: the ids add_shape, add_text and add_image have returned, kept
\*   when track is "ids".

AddOps == {"add_shape", "add_text", "add_image"}

NextIssued(op, r) ==
    IF op \in AddOps /\ r.ret = "Ok" THEN issued \cup {r.id} ELSE issued

HistoryOps ==
    {"add_shape", "add_text", "add_image", "delete_element", "update_element",
     "undo", "redo"}

NextOrigin(op, e) ==
    IF e.history = History_new THEN Some(e.document.layers)
    ELSE IF op \in HistoryOps \cup {"render"} THEN origin
    ELSE None

NoDrag ==
    [latest |-> None, replaced |-> FALSE, base |-> None, updates |-> 0]

\* latest: the selected element as it was in the document at the latest
\*   successful begin_transform since the last commit_transform;
\* replaced: that begin_transform followed another one, which had captured
\*   a different element state;
\* base: the layers and undo stack at the latest successful begin_transform,
\*   while only update_selected_transform, select_element and select_at
\*   followed it; updates: 1 once update_selected_transform was among them.
NextDrag(op, r) ==
    LET selected == get_element_by_id(document, selected_element_id[1])
    IN  CASE op = "begin_transform" /\ r.ret = "true" ->
                IF track = "drag"
                THEN [NoDrag EXCEPT !.latest = selected,
                                    !.replaced = drag.latest \notin {None, selected}]
                ELSE [NoDrag EXCEPT !.base = Some([layers |-> document.layers,
                                                   undo_stack |-> history.undo_stack])]
          [] op = "update_selected_transform" ->
                [drag EXCEPT !.updates = IF drag.base # None THEN 1 ELSE 0]
          [] op \in {"select_element", "select_at", "render"} -> drag
          [] op = "commit_transform" -> NoDrag
          [] OTHER -> [drag EXCEPT !.base = None, !.updates = 0]

\* ---------------------------------------------------------------- actions

Step(op, r) ==
    /\ document' = r.e.document
    /\ history' = r.e.history
    /\ selected_element_id' = r.e.selected_element_id
    /\ transform_snapshot' = r.e.transform_snapshot
    /\ track' = track
    /\ origin' = IF track = "origin" THEN NextOrigin(op, r.e) ELSE origin
    /\ drag' = IF track \in {"drag", "base"} THEN NextDrag(op, r) ELSE drag
    /\ issued' = IF track = "ids" THEN NextIssued(op, r) ELSE issued

CanRecord == Len(history.undo_stack) < MaxHistory

\* with track "ids" the counter runs through every value
CanAllocate ==
    \/ document.next_id \in Document_new.next_id..MaxNextId
    \/ document.next_id = U32Max
    \/ track = "ids"

\* the engine after PigmoraEngine::new, maintaining what t selects
InitTrack(t) ==
    /\ document = Engine_new.document
    /\ history = Engine_new.history
    /\ selected_element_id = Engine_new.selected_element_id
    /\ transform_snapshot = Engine_new.transform_snapshot
    /\ track = t
    /\ origin = Some(Document_new.layers)
    /\ drag = NoDrag
    /\ issued = {}

Init == InitTrack("none")

InitOrigin == InitTrack("origin")

InitDrag == InitTrack("drag")

InitBase == InitTrack("base")

InitIds == InitTrack("ids")

SetRect ==
    /\ CanAllocate
    /\ \E q \in SetRects, b \in Builds :
          Step("set_rect", set_rect(Engine, q[1], q[2], q[3], q[4], b))

\* Documents are loaded while no drag is open.  What load_document does to
\* an open drag is checked by applying it to every reachable state.
LoadDocument ==
    /\ transform_snapshot = None
    /\ \E v \in LoadValues : Step("load_document", load_document(Engine, v))

Undo == Step("undo", Engine_undo(Engine))

Redo == Step("redo", Engine_redo(Engine))

AddShape ==
    /\ CanRecord /\ CanAllocate
    /\ \E t \in ShapeTypes, p \in AddPoints, b \in Builds :
          Step("add_shape", add_shape(Engine, t, p[1], p[2], b))

AddText ==
    /\ CanRecord /\ CanAllocate
    /\ \E c \in Contents, p \in AddPoints, b \in Builds :
          Step("add_text", add_text(Engine, c, p[1], p[2], b))

AddImage ==
    /\ CanRecord /\ CanAllocate
    /\ \E p \in AddPoints, b \in Builds :
          Step("add_image", add_image(Engine, p[1], p[2], b))

DeleteElementOp ==
    /\ CanRecord
    /\ \E id \in ArgIds : Step("delete_element", delete_element(Engine, id))

UpdateElementOp ==
    /\ CanRecord
    /\ \E id \in ArgIds, props \in Props :
          Step("update_element", update_element(Engine, id, props))

SelectAt ==
    \E p \in HitPoints : Step("select_at", select_at(Engine, p[1], p[2]))

SelectElement ==
    \E id \in ArgIds : Step("select_element", select_element(Engine, id))

BeginTransform == Step("begin_transform", begin_transform(Engine))

UpdateSelectedTransform ==
    \E q \in DragRects :
        Step("update_selected_transform",
             update_selected_transform(Engine, q[1], q[2], q[3], q[4]))

UpdateSelectedTextSize ==
    \E z \in FontSizes :
        Step("update_selected_text_size", update_selected_text_size(Engine, z))

CommitTransform ==
    /\ CanRecord
    /\ Step("commit_transform", commit_transform(Engine))

Render == Step("render", render(Engine))

Next ==
    \/ SetRect
    \/ LoadDocument
    \/ Undo
    \/ Redo
    \/ AddShape
    \/ AddText
    \/ AddImage
    \/ DeleteElementOp
    \/ UpdateElementOp
    \/ SelectAt
    \/ SelectElement
    \/ BeginTransform
    \/ UpdateSelectedTransform
    \/ CommitTransform
    \/ Render

\* the engine, neither ghost maintained
Spec == Init /\ [][Next]_vars

\* the engine with origin maintained
SpecOrigin == InitOrigin /\ [][Next]_vars

\* the engine with latest and replaced of drag maintained
SpecDrag == InitDrag /\ [][Next]_vars

\* the engine with base and updates of drag maintained
SpecBase == InitBase /\ [][Next]_vars

\* the operations that allocate ids and that remove and restore elements
NextIds ==
    \/ Undo
    \/ Redo
    \/ AddShape
    \/ AddText
    \/ AddImage
    \/ DeleteElementOp

\* the engine from Document::new on, never loading a document, with issued
\* maintained
SpecIds == InitIds /\ [][NextIds]_vars

\* every operation but load_document, update_selected_text_size among them
NextText ==
    \/ Undo
    \/ Redo
    \/ AddShape
    \/ AddText
    \/ SelectElement
    \/ BeginTransform
    \/ UpdateSelectedTransform
    \/ UpdateSelectedTextSize
    \/ CommitTransform
    \/ SetRect
    \/ AddImage
    \/ DeleteElementOp
    \/ UpdateElementOp
    \/ SelectAt
    \/ Render

\* the engine from Document::new on, never loading a document, with
\* update_selected_text_size among its operations
SpecText == Init /\ [][NextText]_vars

\* ------------------------------------------------- History on its own

\* commands given to History: for the elements 2 and 3 of layer 1, and one
\* for a layer the documents do not have
Pool ==
    {AddElement(1, 0, LoadedShape(2)),
     AddElement(2, 0, LoadedText(3)),
     DeleteElement(1, 0, LoadedText(3)),
     DeleteElement(2, 0, LoadedShape(2)),
     UpdateElement(1, 0, LoadedShape(2),
                   [LoadedShape(2) EXCEPT !.transform = Transform2D_new(4, 4, 1, 1)])}

StacksOf(S) == UNION {[1..n -> S] : n \in 0..MaxHistory}

HistoryDocuments ==
    {[Document_new EXCEPT !.layers[1].elements = els] :
        els \in {<<>>, <<LoadedShape(2)>>, <<LoadedText(3)>>,
                 <<LoadedShape(2), LoadedText(3)>>}}

InitHistory ==
    /\ document \in HistoryDocuments
    /\ history \in [undo_stack : StacksOf(Pool), redo_stack : StacksOf(Pool)]
    /\ selected_element_id = None
    /\ transform_snapshot = None
    /\ track = "none"
    /\ origin = None
    /\ drag = NoDrag
    /\ issued = {}

HistoryStep(r) ==
    /\ history' = r.h
    /\ document' = r.doc
    /\ UNCHANGED <<selected_element_id, transform_snapshot, track, origin, drag, issued>>

HistoryUndo == HistoryStep(History_undo(history, document))

HistoryRedo == HistoryStep(History_redo(history, document))

NextHistory ==
    \/ HistoryUndo
    \/ HistoryRedo

\* History::undo and History::redo on a document, from any two stacks
SpecHistory == InitHistory /\ [][NextHistory]_vars

\* ------------------------------------------------------------------ claims

\* the edits that record a command, applied to engine e
AddEdits(e) ==
    {add_shape(e, t, p[1], p[2], b) : t \in ShapeTypes, p \in AddPoints, b \in Builds}
    \cup {add_text(e, c, p[1], p[2], b) : c \in Contents, p \in AddPoints, b \in Builds}
    \cup {add_image(e, p[1], p[2], b) : p \in AddPoints, b \in Builds}

DeleteEdits(e) == {delete_element(e, id) : id \in ArgIds}

UpdateEdits(e) == {update_element(e, id, props) : id \in ArgIds, props \in Props}

\* the results of those that did record
Recorded(e) ==
    {r \in AddEdits(e) : r.ret = "Ok"}
    \cup {r \in DeleteEdits(e) \cup UpdateEdits(e) : r.ret = "true"}

\* C1: a single recorded edit (add_shape, add_text, add_image, delete_element
\* or update_element of a present id) followed by undo() leaves the layers
\* as they were before the edit.
C1_EditThenUndoRestoresLayers ==
    \A r \in Recorded(Engine) :
        Engine_undo(r.e).e.document.layers = document.layers

\* undo() called until it returns false
RECURSIVE UndoAll(_)
UndoAll(e) ==
    LET r == Engine_undo(e)
    IN  IF r.ret = "true" THEN UndoAll(r.e) ELSE r.e

\* C2: from a state with an empty history, after any sequence of add_*,
\* delete_element, update_element, undo and redo, undoing until undo()
\* returns false restores the layers of that state.
C2_UndoAllRestoresOrigin ==
    origin # None => UndoAll(Engine).document.layers = origin[1]

\* C3: when undo() returns true it moves the top of the undo stack to the
\* top of the redo stack, and a redo() right after it returns true and
\* restores the layers and both stacks.
C3_UndoThenRedoRestores ==
    LET u == Engine_undo(Engine)
        r == Engine_redo(u.e)
    IN  u.ret = "true" =>
          /\ u.e.history.undo_stack = Pop(history.undo_stack)
          /\ u.e.history.redo_stack = Append(history.redo_stack, Top(history.undo_stack))
          /\ r.ret = "true"
          /\ r.e.document.layers = document.layers
          /\ r.e.history = history

\* the lookups by the id of the command on top of the undo stack resolve
\* (first match in layer order) to the element that command left in the
\* document, at the layer and index it recorded; for a DeleteElement, to
\* no element
TopIntact(doc, command) ==
    LET id == IF command.kind = "UpdateElement" THEN command.after.id
              ELSE command.element.id
        k  == find_layer(doc, command.layer_id)
    IN  IF command.kind = "DeleteElement"
        THEN get_element_by_id(doc, id) = None
        ELSE /\ k # 0
             /\ find_layer_of(doc, id) = k
             /\ position(doc.layers[k].elements, id) = Some(command.index)
             /\ get_element_by_id(doc, id)
                   = Some(IF command.kind = "UpdateElement" THEN command.after
                          ELSE command.element)

\* C3 as amended: when undo() returns true it moves the top of the undo
\* stack to the top of the redo stack, and a redo() right after it returns
\* true and restores both stacks; it restores the layers when the element
\* the undone command refers to is still as that command left it.
C3_UndoThenRedoRestoresStacks ==
    LET u == Engine_undo(Engine)
        r == Engine_redo(u.e)
    IN  u.ret = "true" =>
          /\ u.e.history.undo_stack = Pop(history.undo_stack)
          /\ u.e.history.redo_stack = Append(history.redo_stack, Top(history.undo_stack))
          /\ r.ret = "true"
          /\ r.e.history = history
          /\ TopIntact(document, Top(history.undo_stack)) =>
                r.e.document.layers = document.layers

\* an undo that succeeds on an AddElement whose element is not the last of
\* its layer, with a command already on the redo stack
C3_Witness ==
    /\ history.undo_stack # <<>>
    /\ history.redo_stack # <<>>
    /\ Engine_undo(Engine).ret = "true"
    /\ Top(history.undo_stack).kind = "AddElement"
    /\ TopIntact(document, Top(history.undo_stack))
    /\ Len(flatten(document.layers)) >= 2
    /\ Top(history.undo_stack).index = 0

\* C4: right after an operation that records a command (add_*, a successful
\* delete_element or update_element, a commit_transform returning true) the
\* redo stack is empty and redo() returns false and leaves the document.
C4_RecordEmptiesRedo ==
    \A r \in Recorded(Engine) \cup {c \in {commit_transform(Engine)} : c.ret = "true"} :
        /\ r.e.history.redo_stack = <<>>
        /\ Engine_redo(r.e).ret = "false"
        /\ Engine_redo(r.e).e.document = r.e.document

\* two undos preceded and a drag is about to be committed
C4_Witness ==
    /\ Len(history.redo_stack) >= 2
    /\ commit_transform(Engine).ret = "true"
    /\ Recorded(Engine) # {}

Absent(doc, id) == get_element_by_id(doc, id) = None

\* the inverse of the command cannot be applied to doc
CannotUndo(command, doc) ==
    CASE command.kind = "AddElement" -> Absent(doc, command.element.id)
      [] command.kind = "UpdateElement" -> Absent(doc, command.before.id)
      [] command.kind = "DeleteElement" -> find_layer(doc, command.layer_id) = 0

\* the command cannot be applied to doc
CannotApply(command, doc) ==
    CASE command.kind = "AddElement" -> find_layer(doc, command.layer_id) = 0
      [] command.kind = "UpdateElement" -> Absent(doc, command.after.id)
      [] command.kind = "DeleteElement" -> Absent(doc, command.element.id)

\* C5: when the command History::undo pops cannot be undone on the document
\* (element id of an AddElement or UpdateElement absent, layer of a
\* DeleteElement absent) the call returns false, leaves the document and the
\* redo stack alone and only drops that command from the undo stack;
\* History::redo does the same with the stacks swapped.
C5_FailedCommandIsDropped ==
    LET u == History_undo(history, document)
        r == History_redo(history, document)
    IN  /\ history.undo_stack # <<>> /\ CannotUndo(Top(history.undo_stack), document) =>
              /\ u.ret = FALSE
              /\ u.doc = document
              /\ u.h.undo_stack = Pop(history.undo_stack)
              /\ u.h.redo_stack = history.redo_stack
        /\ history.redo_stack # <<>> /\ CannotApply(Top(history.redo_stack), document) =>
              /\ r.ret = FALSE
              /\ r.doc = document
              /\ r.h.redo_stack = Pop(history.redo_stack)
              /\ r.h.undo_stack = history.undo_stack

\* the top of the undo stack cannot be undone while the command under it
\* can, and the top of the redo stack cannot be applied while the command
\* under it can
C5_Witness ==
    /\ Len(history.undo_stack) = 2
    /\ Len(history.redo_stack) = 2
    /\ CannotUndo(history.undo_stack[2], document)
    /\ ~CannotUndo(history.undo_stack[1], document)
    /\ CannotApply(history.redo_stack[2], document)
    /\ ~CannotApply(history.redo_stack[1], document)
    /\ History_undo(history, document).ret = FALSE
    /\ History_redo(history, document).ret = FALSE

\* C6: begin_transform() returning true, then update_selected_transform
\* calls with select_element and select_at calls among them, then
\* commit_transform(): at most one command was added, and when the layers
\* differ from those at begin_transform exactly one was, whose undo()
\* restores them.
C6_DragIsOneUndoStep ==
    drag.base # None /\ drag.updates = 1 =>
        LET c     == commit_transform(Engine)
            added == Len(c.e.history.undo_stack) - Len(drag.base[1].undo_stack)
        IN  /\ added <= 1
            /\ c.e.document.layers # drag.base[1].layers =>
                  /\ added = 1
                  /\ Engine_undo(c.e).e.document.layers = drag.base[1].layers

\* the places of the elements of doc: layer and index, both from 1
Slots(doc) ==
    UNION {{<<k, j>> : j \in 1..Len(doc.layers[k].elements)} : k \in 1..Len(doc.layers)}

\* C7: update_selected_transform leaves both stacks and the selection as
\* they are, keeps the layers and the order of their elements, and changes
\* at most x, y, width and height of one element, which has the selected id.
C7_LiveUpdateFrame ==
    \A q \in DragRects :
        LET r    == update_selected_transform(Engine, q[1], q[2], q[3], q[4])
            doc2 == r.e.document
            same(a, b) == [a EXCEPT !.transform.x = b.transform.x,
                                    !.transform.y = b.transform.y,
                                    !.transform.width = b.transform.width,
                                    !.transform.height = b.transform.height] = b
            changed == {s \in Slots(document) :
                          doc2.layers[s[1]].elements[s[2]]
                            # document.layers[s[1]].elements[s[2]]}
        IN  /\ r.e.history = history
            /\ r.e.selected_element_id = selected_element_id
            /\ [doc2 EXCEPT !.layers = document.layers] = document
            /\ Len(doc2.layers) = Len(document.layers)
            /\ \A k \in 1..Len(document.layers) :
                  /\ [doc2.layers[k] EXCEPT !.elements = document.layers[k].elements]
                        = document.layers[k]
                  /\ Len(doc2.layers[k].elements) = Len(document.layers[k].elements)
            /\ Cardinality(changed) <= 1
            /\ \A s \in changed :
                  /\ selected_element_id = Some(document.layers[s[1]].elements[s[2]].id)
                  /\ same(doc2.layers[s[1]].elements[s[2]],
                          document.layers[s[1]].elements[s[2]])

\* a live update that moves the selected element while both stacks hold a
\* command and another element is in the document
C7_Witness ==
    /\ history.undo_stack # <<>>
    /\ history.redo_stack # <<>>
    /\ Len(flatten(document.layers)) >= 2
    /\ \E q \in DragRects :
          LET r == update_selected_transform(Engine, q[1], q[2], q[3], q[4])
          IN  r.ret = "true" /\ r.e.document # document

\* the engine as it is and as it is after each load_document
AfterLoad(e) == {e} \cup {load_document(e, v).e : v \in LoadValues}

\* C8: commit_transform() with the snapshot's element in the document and
\* its transform equal to the one captured returns false and leaves both
\* stacks as they are.
C8_UnchangedCommitRecordsNothing ==
    \A e \in AfterLoad(Engine) :
        (/\ e.transform_snapshot # None
         /\ ~Absent(e.document, e.transform_snapshot[1].element_id)
         /\ get_element_by_id(e.document, e.transform_snapshot[1].element_id)[1].transform
               = e.transform_snapshot[1].before.transform)
        => /\ commit_transform(e).ret = "false"
           /\ commit_transform(e).e.history = e.history

\* an open drag whose element has its captured transform, with a command on
\* each stack
C8_Witness ==
    /\ transform_snapshot # None
    /\ ~Absent(document, transform_snapshot[1].element_id)
    /\ get_element_by_id(document, transform_snapshot[1].element_id)[1].transform
          = transform_snapshot[1].before.transform
    /\ history.undo_stack # <<>>
    /\ history.redo_stack # <<>>
    /\ commit_transform(Engine).ret = "false"

\* C9: begin_transform() changes neither the document nor the stacks; a
\* begin_transform() that succeeds replaces the snapshot by the selected
\* element as it is now, and the commit_transform() after it records that
\* element as 'before', whatever an earlier begin_transform captured.
C9_LaterBeginReplacesSnapshot ==
    LET b == begin_transform(Engine)
        c == commit_transform(Engine)
    IN  /\ b.e.document = document
        /\ b.e.history = history
        /\ b.ret = "true" =>
              b.e.transform_snapshot
                = Some([element_id |-> selected_element_id[1],
                        before |-> get_element_by_id(document, selected_element_id[1])[1]])
        /\ transform_snapshot # None =>
              /\ drag.latest # None
              /\ transform_snapshot[1].before = drag.latest[1]
        /\ c.ret = "true" =>
              /\ Len(c.e.history.undo_stack) = Len(history.undo_stack) + 1
              /\ Pop(c.e.history.undo_stack) = history.undo_stack
              /\ Top(c.e.history.undo_stack).kind = "UpdateElement"
              /\ Top(c.e.history.undo_stack).before = drag.latest[1]

\* two begin_transform calls without a commit between them that captured
\* different elements, and a commit that records
C9_Witness ==
    /\ drag.replaced
    /\ commit_transform(Engine).ret = "true"

\* C10: after a load_document that succeeds both stacks are empty, and a
\* commit_transform() for a begin_transform made before the load records
\* nothing.
C10_LoadDropsOpenDrag ==
    \A v \in LoadValues :
        LET r == load_document(Engine, v)
        IN  r.ret = "Ok" =>
              /\ r.e.history = History_new
              /\ commit_transform(r.e).e.history = History_new

ElementIds(doc) == {flatten(doc.layers)[k].id : k \in 1..Len(flatten(doc.layers))}

LayerIds(doc) == {doc.layers[k].id : k \in 1..Len(doc.layers)}

\* C11: from Document::new on, without load_document, no two elements have
\* one id, no element has the id of a layer, and no add_shape, add_text or
\* add_image returns an id that one of them returned before.
C11_IdsUniqueNeverReused ==
    /\ Cardinality(ElementIds(document)) = Len(flatten(document.layers))
    /\ ElementIds(document) \cap LayerIds(document) = {}
    /\ \A r \in AddEdits(Engine) : r.ret = "Ok" => r.id \notin issued

\* C12: of two next_element_id() calls on one document the later returns
\* the greater value, at every value of the counter, and delete_element and
\* undo() never lower the counter.
C12_NextIdStrictlyIncreasing ==
    /\ \A b \in Builds :
          LET first  == next_element_id(document, b)
              second == next_element_id(first.doc, b)
          IN  ~first.panic /\ ~second.panic => second.id > first.id
    /\ \A id \in ArgIds :
          delete_element(Engine, id).e.document.next_id >= document.next_id
    /\ Engine_undo(Engine).e.document.next_id >= document.next_id

\* C13: after a load_document that succeeds, the id next_element_id
\* returns, and the id an add_shape, add_text or add_image returns, is
\* greater than every layer id and element id of the loaded snapshot.
C13_NextIdAboveLoadedIds ==
    \A v \in LoadValues :
        LET r    == load_document(Engine, v)
            used == LayerIds(v.doc) \cup ElementIds(v.doc)
        IN  r.ret = "Ok" =>
              /\ \A b \in Builds :
                    ~next_element_id(r.e.document, b).panic =>
                        \A id \in used : next_element_id(r.e.document, b).id > id
              /\ \A a \in AddEdits(r.e) :
                    a.ret = "Ok" => \A id \in used : a.id > id

\* C14: the document has a layer in every state, and after every
\* load_document that succeeds; a snapshot without layers is given one
\* layer, whose id becomes active_layer_id.
C14_AtLeastOneLayer ==
    /\ Len(document.layers) >= 1
    /\ \A v \in LoadValues :
          LET r == load_document(Engine, v)
          IN  r.ret = "Ok" =>
                /\ Len(r.e.document.layers) >= 1
                /\ v.doc.layers = <<>> =>
                      /\ Len(r.e.document.layers) = 1
                      /\ r.e.document.layers[1].id = r.e.document.active_layer_id
                      /\ r.e.document.layers[1].elements = <<>>

\* an edited document with elements, about to be replaced by the snapshot
\* without layers
C14_Witness ==
    /\ history.undo_stack # <<>>
    /\ Len(flatten(document.layers)) >= 2
    /\ load_document(Engine, [ok |-> TRUE, doc |-> NoLayers]).ret = "Ok"
    /\ Len(load_document(Engine, [ok |-> TRUE, doc |-> NoLayers]).e.document.layers) = 1

\* layers, stacks and selection of e are those of the current state
SameButSnapshot(e) ==
    /\ e.document.layers = document.layers
    /\ e.history = history
    /\ e.selected_element_id = selected_element_id

AddReturns(e) ==
    {r \in AddEdits(e) : r.ret \notin {"panic", "Unknown shape type"}}

EnsureRects == {Transform2D_new(4, 4, 1, 1), Transform2D_new(7, 7, 2, 2)}

\* doc with every transform replaced by one value: what is left is the
\* layers, their order, and the elements but for their transforms
Untransformed(doc) ==
    [k \in 1..Len(doc.layers) |->
        [doc.layers[k] EXCEPT !.elements =
            [j \in 1..Len(doc.layers[k].elements) |->
                [doc.layers[k].elements[j] EXCEPT !.transform = Transform2D_new(0, 0, 0, 0)]]]]

\* the places whose element differs between two documents of one shape
Differing(doc1, doc2) ==
    {s \in Slots(doc1) :
        doc1.layers[s[1]].elements[s[2]] # doc2.layers[s[1]].elements[s[2]]}

\* a snapshot whose only element is a Text with the largest id
TextAtMax ==
    [layers |-> <<[Layer_new(1, "Layer 1") EXCEPT !.elements = <<LoadedText(U32Max)>>]>>,
     active_layer_id |-> 1, next_id |-> 0]

\* two ensure_primary_shape calls in a row on doc
EnsureTwice(doc) ==
    \A b \in Builds, t1 \in EnsureRects, t2 \in EnsureRects :
        LET first  == ensure_primary_shape(doc, t1, b)
            second == ensure_primary_shape(first.doc, t2, b)
            shape  == Element_shape(first.id, "Rectangle", ShapeElement_rectangle, t1)
            k      == find_layer(doc, doc.active_layer_id)
            n      == Len(doc.layers)
        IN  ~first.panic =>
              /\ find_first_shape(doc) = None =>
                    /\ Len(flatten(first.doc.layers)) = Len(flatten(doc.layers)) + 1
                    /\ k # 0 =>
                          /\ first.doc.layers
                                = [doc.layers EXCEPT ![k].elements = Append(@, shape)]
                          /\ first.doc.active_layer_id = doc.active_layer_id
                    /\ k = 0 =>
                          /\ Len(first.doc.layers) = n + 1
                          /\ SubSeq(first.doc.layers, 1, n) = doc.layers
                          /\ first.doc.layers[n + 1].elements = <<shape>>
                          /\ first.doc.active_layer_id = first.doc.layers[n + 1].id
              /\ ~second.panic
              /\ second.id = first.id
              /\ find_first_shape(first.doc) = Some(first.id)
              /\ Untransformed(second.doc) = Untransformed(first.doc)
              /\ [second.doc EXCEPT !.layers = first.doc.layers] = first.doc
              /\ Cardinality(Differing(first.doc, second.doc)) <= 1
              /\ \A s \in Differing(first.doc, second.doc) :
                    /\ first.doc.layers[s[1]].elements[s[2]].id = first.id
                    /\ first.doc.layers[s[1]].elements[s[2]].data.tag = "Shape"
                    /\ second.doc.layers[s[1]].elements[s[2]].transform = t2

\* C17: on a document without a Shape, ensure_primary_shape adds one Shape
\* element, to the active layer or, when that is missing, to a new layer
\* that becomes active, and returns its id; a later call returns the same
\* id and changes nothing but the transform of that element.
C17_EnsurePrimaryShape ==
    /\ EnsureTwice(document)
    /\ EnsureTwice(load_document(Engine, [ok |-> TRUE, doc |-> TextAtMax]).e.document)

\* updates carrying text fields only, at least one
TextUpdates ==
    {[NoUpdate EXCEPT !.content = c, !.font_family = f, !.font_size = z, !.fill = l] :
        c \in {None, Some("new")}, f \in {None, Some("serif")},
        z \in {None, Some(0), Some(30)}, l \in {None, Some("1,0,0,1")}} \ {NoUpdate}

\* the place of the first element with this id, layer order then element
\* order
FirstPlace(doc, id) ==
    CHOOSE s \in Slots(doc) :
        /\ doc.layers[s[1]].elements[s[2]].id = id
        /\ \A t \in Slots(doc) :
              doc.layers[t[1]].elements[t[2]].id = id =>
                  t[1] > s[1] \/ (t[1] = s[1] /\ t[2] >= s[2])

\* C18: update_element with text fields only returns true; on a Shape or an
\* Image it leaves the layers as they are, on a Text it writes the fields
\* given (font_size as max(value, 1)) and nothing else.
C18_TextOnlyUpdate ==
    \A id \in ElementIds(document), u \in TextUpdates :
        LET r      == update_element(Engine, id, [ok |-> TRUE, update |-> u])
            s      == FirstPlace(document, id)
            target == document.layers[s[1]].elements[s[2]]
            text   == target.data.text
        IN  /\ r.ret = "true"
            /\ target.data.tag # "Text" => r.e.document.layers = document.layers
            /\ target.data.tag = "Text" =>
                  r.e.document.layers =
                    [document.layers EXCEPT ![s[1]].elements[s[2]].data.text =
                        [content     |-> IF u.content = None THEN text.content
                                         ELSE u.content[1],
                         font_family |-> IF u.font_family = None THEN text.font_family
                                         ELSE u.font_family[1],
                         font_size   |-> IF u.font_size = None THEN text.font_size
                                         ELSE IF u.font_size[1] < 1 THEN 1
                                         ELSE u.font_size[1],
                         fill        |-> IF u.fill = None THEN text.fill
                                         ELSE u.fill[1]]]

\* a Shape and a Text in the document, each the target of such an update
C18_Witness ==
    /\ \E id \in ElementIds(document) :
          LET s == FirstPlace(document, id)
          IN  document.layers[s[1]].elements[s[2]].data.tag = "Shape"
    /\ \E id \in ElementIds(document), u \in TextUpdates :
          LET s == FirstPlace(document, id)
              r == update_element(Engine, id, [ok |-> TRUE, update |-> u])
          IN  /\ document.layers[s[1]].elements[s[2]].data.tag = "Text"
              /\ r.ret = "true"
              /\ r.e.document.layers # document.layers

\* values given for width and height
Extents == {-2, 0, 1, 9}

\* updates of the transform: each field absent or given
TransformUpdates ==
    {[NoUpdate EXCEPT !.x = x, !.y = y, !.width = w, !.height = h, !.rotation = ro] :
        x \in {None, Some(-3)}, y \in {Some(5)},
        w \in {None, Some(0), Some(9)},
        h \in {Some(-2), Some(1)},
        ro \in {None, Some(45)}}

AtLeastOne(v) == IF v < 1 THEN 1 ELSE v

\* C19: update_element writes width and height as max(value given, 1) and
\* x, y and rotation as given, leaving the fields not given;
\* update_selected_transform writes x and y as given and width and height
\* as max(value given, 1).
C19_ExtentsAtLeastOne ==
    /\ \A id \in ElementIds(document), u \in TransformUpdates :
          LET r == update_element(Engine, id, [ok |-> TRUE, update |-> u])
              s == FirstPlace(document, id)
              t == document.layers[s[1]].elements[s[2]].transform
          IN  /\ r.ret = "true"
              /\ r.e.document.layers[s[1]].elements[s[2]].transform =
                    [x        |-> IF u.x = None THEN t.x ELSE u.x[1],
                     y        |-> IF u.y = None THEN t.y ELSE u.y[1],
                     width    |-> IF u.width = None THEN t.width
                                  ELSE AtLeastOne(u.width[1]),
                     height   |-> IF u.height = None THEN t.height
                                  ELSE AtLeastOne(u.height[1]),
                     rotation |-> IF u.rotation = None THEN t.rotation
                                  ELSE u.rotation[1]]
    /\ \A x \in {-3}, y \in {5}, w \in Extents, h \in {0, 9} :
          LET r == update_selected_transform(Engine, x, y, w, h)
          IN  r.ret = "true" =>
                LET s == FirstPlace(document, selected_element_id[1])
                    t == document.layers[s[1]].elements[s[2]].transform
                IN  r.e.document.layers[s[1]].elements[s[2]].transform =
                      [x |-> x, y |-> y, width |-> AtLeastOne(w),
                       height |-> AtLeastOne(h), rotation |-> t.rotation]

\* a selected element among several, which both operations reach
C19_Witness ==
    /\ selected_element_id # None
    /\ Len(flatten(document.layers)) >= 2
    /\ history.undo_stack # <<>>
    /\ update_selected_transform(Engine, 0, 5, 0, -2).ret = "true"
    /\ update_element(Engine, selected_element_id[1],
                       [ok |-> TRUE,
                        update |-> [NoUpdate EXCEPT !.width = Some(0)]]).ret = "true"

\* the places of doc that hold a Shape
ShapePlaces(doc) ==
    {s \in Slots(doc) : doc.layers[s[1]].elements[s[2]].data.tag = "Shape"}

\* the id of the first Shape, layer order then element order, if any
FirstShapeId(doc) ==
    IF ShapePlaces(doc) = {} THEN None
    ELSE LET s == CHOOSE s \in ShapePlaces(doc) :
                     \A t \in ShapePlaces(doc) :
                         t[1] > s[1] \/ (t[1] = s[1] /\ t[2] >= s[2])
         IN  Some(doc.layers[s[1]].elements[s[2]].id)

\* C20: after a delete_element(id) that returns true the selection is the
\* first Shape that remains, or none when no Shape remains, if id was
\* selected, and is unchanged otherwise.
C20_SelectionAfterDelete ==
    \A id \in ArgIds :
        LET r == delete_element(Engine, id)
        IN  r.ret = "true" =>
              IF selected_element_id = Some(id)
              THEN r.e.selected_element_id = FirstShapeId(r.e.document)
              ELSE r.e.selected_element_id = selected_element_id

\* deleting the selected element moves the selection to a Shape that
\* remains, and deleting another element is possible too
C20_Witness ==
    /\ selected_element_id # None
    /\ delete_element(Engine, selected_element_id[1]).ret = "true"
    /\ delete_element(Engine, selected_element_id[1]).e.selected_element_id
          \notin {None, selected_element_id}
    /\ \E id \in ArgIds :
          Some(id) # selected_element_id /\ delete_element(Engine, id).ret = "true"

\* the places of doc whose element is drawn: a Shape or an Image in a
\* visible layer
DrawnPlaces(doc) ==
    {s \in Slots(doc) : /\ doc.layers[s[1]].visible
                        /\ doc.layers[s[1]].elements[s[2]].data.tag \in {"Shape", "Image"}}

\* place s comes before place t, in layer order and then element order
Before(s, t) == s[1] < t[1] \/ (s[1] = t[1] /\ s[2] < t[2])

\* the rectangle of the element at place s
RectAt(doc, s) ==
    LET t == doc.layers[s[1]].elements[s[2]].transform
    IN  [x |-> t.x, y |-> t.y, width |-> t.width, height |-> t.height]

\* C21: the projection holds one primitive for each Shape and each Image of
\* a visible layer, locked or not, in layer order and then element order,
\* with the element's rectangle; the elements of invisible layers and the
\* Text elements give none; render leaves the engine as it is.
C21_ProjectionListsVisible ==
    LET rects == collect_rects(Engine).rects
        drawn == DrawnPlaces(document)
    IN  /\ Len(rects) = Cardinality(drawn)
        /\ \A s \in drawn :
              LET k == 1 + Cardinality({t \in drawn : Before(t, s)})
              IN  /\ rects[k].rect = RectAt(document, s)
                  /\ document.layers[s[1]].elements[s[2]].data.tag = "Image"
                        => rects[k].shape = "Rect"
        /\ render(Engine).e = Engine

\* an invisible layer holds a Shape and a locked visible layer an Image,
\* and only the latter is drawn
C21_Witness ==
    /\ \E s \in Slots(document) :
          /\ ~document.layers[s[1]].visible
          /\ document.layers[s[1]].elements[s[2]].data.tag = "Shape"
    /\ \E s \in DrawnPlaces(document) : document.layers[s[1]].locked
    /\ Len(collect_rects(Engine).rects) = 1

\* a visible layer holds a Text element and a drawn element
C21_TextWitness ==
    /\ \E s \in Slots(document) :
          /\ document.layers[s[1]].visible
          /\ document.layers[s[1]].elements[s[2]].data.tag = "Text"
    /\ Cardinality(DrawnPlaces(document)) = 1

\* two elements are drawn, with different rectangles
C21_OrderWitness ==
    /\ Len(collect_rects(Engine).rects) = 2
    /\ collect_rects(Engine).rects[1] # collect_rects(Engine).rects[2]

\* C22: while the selected id is the id of an element of the document, the
\* projection surfaces a highlighted rectangle, the x, y, width and height
\* of an element with that id, whatever its kind and its layer; while
\* nothing is selected it surfaces none.
C22_SelectedIsHighlighted ==
    LET selected_rect == collect_rects(Engine).selected_rect
        held == {s \in Slots(document) :
                    Some(document.layers[s[1]].elements[s[2]].id) = selected_element_id}
    IN  IF selected_element_id = None THEN selected_rect = None
        ELSE held # {} =>
               /\ selected_rect # None
               /\ \E s \in held : selected_rect[1] = RectAt(document, s)

\* the same for a selected element held by a visible layer
C22_VisibleSelectedIsHighlighted ==
    LET selected_rect == collect_rects(Engine).selected_rect
        held == {s \in Slots(document) :
                    /\ Some(document.layers[s[1]].elements[s[2]].id) = selected_element_id
                    /\ document.layers[s[1]].visible}
    IN  IF selected_element_id = None THEN selected_rect = None
        ELSE held # {} =>
               /\ selected_rect # None
               /\ \E s \in held : selected_rect[1] = RectAt(document, s)

\* layer ids and indices given to replace_element_at and insert_element_at
LayerArgs == {1, 3, 5}

IndexArgs == 0..3

\* the element handed over, with the id asked for
Replacement(id) ==
    Element_text(id, "Replacement", TextElement_new("new"), Transform2D_new(7, 7, 7, 7))

\* the layers of doc with this id, by position
LayersWithId(doc, layer_id) ==
    {k \in 1..Len(doc.layers) : doc.layers[k].id = layer_id}

\* the first of them
FirstLayer(doc, layer_id) ==
    CHOOSE k \in LayersWithId(doc, layer_id) :
        \A k2 \in LayersWithId(doc, layer_id) : k <= k2

\* the slot (layer_id, index) of doc holds an element with this id
SlotHolds(doc, layer_id, index, id) ==
    /\ LayersWithId(doc, layer_id) # {}
    /\ index < Len(doc.layers[FirstLayer(doc, layer_id)].elements)
    /\ doc.layers[FirstLayer(doc, layer_id)].elements[index + 1].id = id

\* C23: replace_element_at(layer_id, index, e) returns false and changes
\* nothing exactly when no element has id e.id; otherwise it returns true
\* and writes e over the slot (layer_id, index) when that slot holds an
\* element with id e.id, and over the first element with id e.id if not;
\* nothing else in the document changes.
C23_ReplaceElementAt ==
    \A layer_id \in LayerArgs, index \in IndexArgs, id \in Ids :
        LET r == replace_element_at(document, layer_id, index, Replacement(id))
            s == IF SlotHolds(document, layer_id, index, id)
                 THEN <<FirstLayer(document, layer_id), index + 1>>
                 ELSE FirstPlace(document, id)
        IN  IF id \notin ElementIds(document)
            THEN r.ret = FALSE /\ r.doc = document
            ELSE /\ r.ret = TRUE
                 /\ r.doc = [document EXCEPT !.layers[s[1]].elements[s[2]] = Replacement(id)]

\* a layer holds two elements; a call naming the slot of the second one
\* and a call naming the slot of the first one with the second one's id
\* both replace the second one
C23_Witness ==
    \E layer_id \in LayerArgs :
        /\ LayersWithId(document, layer_id) # {}
        /\ LET elements == document.layers[FirstLayer(document, layer_id)].elements
           IN  /\ Len(elements) >= 2
               /\ elements[1].id # elements[2].id
               /\ replace_element_at(document, layer_id, 1, Replacement(elements[2].id)).ret
               /\ replace_element_at(document, layer_id, 0, Replacement(elements[2].id)).doc
                    = replace_element_at(document, layer_id, 1,
                                         Replacement(elements[2].id)).doc

\* C24: insert_element_at(layer_id, index, e) returns false and changes
\* nothing exactly when no layer has id layer_id; otherwise it returns true,
\* e stands at position min(index, length) of the first layer with that
\* id, the other elements of that layer keep their order, and nothing else
\* in the document changes.
C24_InsertElementAt ==
    \A layer_id \in LayerArgs, index \in IndexArgs :
        LET e == Replacement(0)
            r == insert_element_at(document, layer_id, index, e)
        IN  IF LayersWithId(document, layer_id) = {}
            THEN r.ret = FALSE /\ r.doc = document
            ELSE LET k   == FirstLayer(document, layer_id)
                     old == document.layers[k].elements
                     new == r.doc.layers[k].elements
                     p   == IF index < Len(old) THEN index ELSE Len(old)
                 IN  /\ r.ret = TRUE
                     /\ Len(new) = Len(old) + 1
                     /\ new[p + 1] = e
                     /\ \A j \in 1..Len(old) :
                           IF j <= p THEN new[j] = old[j] ELSE new[j + 1] = old[j]
                     /\ [r.doc EXCEPT !.layers[k].elements = old] = document

\* a layer holds two elements, so an insertion at 0, in the middle, at the
\* end and past the end are four different results
C24_Witness ==
    \E layer_id \in LayerArgs :
        /\ LayersWithId(document, layer_id) # {}
        /\ Len(document.layers[FirstLayer(document, layer_id)].elements) = 2
        /\ Cardinality({insert_element_at(document, layer_id, index, Replacement(0)).doc :
                           index \in IndexArgs}) = 3
        /\ \E other \in LayerArgs : LayersWithId(document, other) = {}

\* what may come between two commit_transform calls besides a
\* begin_transform: nothing, a move of the selected element, a selection
Between(e) ==
    {e, update_selected_transform(e, 4, 4, 0, 0).e}
        \cup {select_element(e, id).e : id \in ArgIds}

\* C25: after commit_transform, whatever it returned, no snapshot remains,
\* and a further commit_transform with no successful begin_transform in
\* between returns false and changes nothing.
C25_CommitConsumesSnapshot ==
    \A e \in AfterLoad(Engine) :
        LET c == commit_transform(e)
        IN  /\ c.e.transform_snapshot = None
            /\ \A b \in Between(c.e) :
                  /\ b.transform_snapshot = None
                  /\ commit_transform(b).ret = "false"
                  /\ commit_transform(b).e = b

\* an open drag whose element is no longer in the document: the commit
\* returns false and the snapshot is gone
C25_Witness ==
    /\ transform_snapshot # None
    /\ Absent(document, transform_snapshot[1].element_id)
    /\ commit_transform(Engine).ret = "false"
    /\ commit_transform(Engine).e.transform_snapshot = None

\* an open drag whose commit is recorded
C25_RecordedWitness ==
    /\ transform_snapshot # None
    /\ commit_transform(Engine).ret = "true"

\* C26: undo() returns true exactly when the undo stack is not empty and
\* redo() returns true exactly when the redo stack is not empty: no
\* recorded command fails to apply.
C26_NoCommandDropped ==
    /\ Engine_undo(Engine).ret = "true" <=> history.undo_stack # <<>>
    /\ Engine_redo(Engine).ret = "true" <=> history.redo_stack # <<>>

\* both stacks hold a command, the command to undo is an UpdateElement,
\* and undo() and redo() both return true
C26_Witness ==
    /\ history.undo_stack # <<>>
    /\ history.redo_stack # <<>>
    /\ Top(history.undo_stack).kind = "UpdateElement"
    /\ Engine_undo(Engine).ret = "true"
    /\ Engine_redo(Engine).ret = "true"

\* the selection of e is empty or the id of an element of its document
SelectionPresent(e) ==
    \/ e.selected_element_id = None
    \/ e.selected_element_id[1] \in ElementIds(e.document)

\* the engine after each call of an operation that adds, removes or
\* replaces elements, or of select_element, that returns
AfterEdit(e) ==
    {add_shape(e, t, 0, 0, b).e : t \in ShapeTypes, b \in Builds}
      \cup {add_text(e, "hi", 0, 0, b).e : b \in Builds}
      \cup {add_image(e, 0, 0, b).e : b \in Builds}
      \cup {delete_element(e, id).e : id \in ArgIds}
      \cup {select_element(e, id).e : id \in ArgIds}
      \cup {Engine_undo(e).e, Engine_redo(e).e}

\* C27: after add_shape, add_text, add_image, delete_element, undo, redo,
\* load_document and select_element the selection is empty or the id of an
\* element of the document, and after a load_document that succeeds it is
\* the id of the first Shape of the loaded document, or empty without one.
C27_SelectionIsPresent ==
    /\ \A e \in AfterEdit(Engine) : SelectionPresent(e)
    /\ \A v \in LoadValues \cup {[ok |-> TRUE, doc |-> TextAtMax]} :
          LET r == load_document(Engine, v)
          IN  /\ SelectionPresent(r.e)
              /\ v.ok => r.e.selected_element_id = FirstShapeId(v.doc)

\* undo() removes the selected element and the selection moves on; a load
\* changes the selection too
C27_Witness ==
    /\ selected_element_id # None
    /\ Engine_undo(Engine).ret = "true"
    /\ selected_element_id[1] \notin ElementIds(Engine_undo(Engine).e.document)
    /\ Engine_undo(Engine).e.selected_element_id \notin {None, selected_element_id}
    /\ \E v \in LoadValues :
          load_document(Engine, v).e.selected_element_id \notin {None, selected_element_id}

\* updates given to update_element: the empty one, one of text fields only,
\* one of the transform, one of the name
RecordedUpdates ==
    {NoUpdate,
     [NoUpdate EXCEPT !.content = Some("new"), !.font_size = Some(0)],
     [NoUpdate EXCEPT !.x = Some(4), !.width = Some(0)],
     [NoUpdate EXCEPT !.name = Some("Loaded")]}

\* C28: update_element on the id of an element returns true with exactly
\* one UpdateElement pushed on the undo stack and an empty redo stack; the
\* empty update and a text-only update of a Shape or an Image change
\* nothing in the layers; whenever nothing changed the command's before
\* and after are equal and the following undo() returns true and leaves the
\* layers as they are.
C28_UpdateAlwaysRecords ==
    \A id \in ElementIds(document), update \in RecordedUpdates :
        LET r == update_element(Engine, id, [ok |-> TRUE, update |-> update])
            s == FirstPlace(document, id)
        IN  /\ r.ret = "true"
            /\ Len(r.e.history.undo_stack) = Len(history.undo_stack) + 1
            /\ SubSeq(r.e.history.undo_stack, 1, Len(history.undo_stack))
                  = history.undo_stack
            /\ Top(r.e.history.undo_stack).kind = "UpdateElement"
            /\ r.e.history.redo_stack = <<>>
            /\ (\/ update = NoUpdate
                \/ /\ update.content # None
                   /\ document.layers[s[1]].elements[s[2]].data.tag # "Text")
                 => r.e.document.layers = document.layers
            /\ r.e.document.layers = document.layers =>
                 /\ Top(r.e.history.undo_stack).before = Top(r.e.history.undo_stack).after
                 /\ Engine_undo(r.e).ret = "true"
                 /\ Engine_undo(r.e).e.document.layers = document.layers
                 /\ Engine_undo(r.e).e.history.undo_stack = history.undo_stack

\* a Shape, a command on the redo stack and one on the undo stack: the
\* empty update is recorded and empties the redo stack
C28_Witness ==
    /\ history.redo_stack # <<>>
    /\ history.undo_stack # <<>>
    /\ \E s \in ShapePlaces(document) :
          LET r == update_element(Engine, document.layers[s[1]].elements[s[2]].id,
                                  [ok |-> TRUE, update |-> NoUpdate])
          IN  /\ r.ret = "true"
              /\ r.e.document = document
              /\ r.e.history.redo_stack = <<>>
              /\ Len(r.e.history.undo_stack) = Len(history.undo_stack) + 1

\* sizes given to update_selected_text_size in C29
SizeArgs == {-3, 0, 1, 30}

\* the selected id is the id of an element and the first such element is a
\* Text
SelectedIsText(e) ==
    /\ e.selected_element_id # None
    /\ e.selected_element_id[1] \in ElementIds(e.document)
    /\ LET s == FirstPlace(e.document, e.selected_element_id[1])
       IN  e.document.layers[s[1]].elements[s[2]].data.tag = "Text"

\* C29: update_selected_text_size leaves both stacks, the selection and
\* the snapshot as they are; with a Text selected it returns true and
\* writes font_size, max(size, 1), of that element and nothing else; if
\* not it returns false and leaves the document as it is; begin_transform,
\* update_selected_text_size, commit_transform in a row record nothing.
C29_TextSizeIsNotRecorded ==
    \A z \in SizeArgs :
        LET r == update_selected_text_size(Engine, z)
            b == begin_transform(Engine)
            c == commit_transform(update_selected_text_size(b.e, z).e)
        IN  /\ r.e.history = history
            /\ r.e.selected_element_id = selected_element_id
            /\ r.e.transform_snapshot = transform_snapshot
            /\ IF SelectedIsText(Engine)
               THEN LET s == FirstPlace(document, selected_element_id[1])
                    IN  /\ r.ret = "true"
                        /\ r.e.document =
                              [document EXCEPT
                                 !.layers[s[1]].elements[s[2]].data.text.font_size =
                                     IF z < 1 THEN 1 ELSE z]
               ELSE r.ret = "false" /\ r.e.document = document
            /\ b.ret = "true" => c.ret = "false" /\ c.e.history = history

\* a Text is selected, each stack holds a command, and the resize changes
\* the document, also between a begin_transform and its commit_transform
C29_Witness ==
    /\ SelectedIsText(Engine)
    /\ history.undo_stack # <<>>
    /\ history.redo_stack # <<>>
    /\ update_selected_text_size(Engine, 0).ret = "true"
    /\ update_selected_text_size(Engine, 0).e.document # document
    /\ begin_transform(Engine).ret = "true"

\* a Shape is selected and the resize returns false
C29_ShapeWitness ==
    /\ selected_element_id # None
    /\ ~SelectedIsText(Engine)
    /\ update_selected_text_size(Engine, 30).ret = "false"

====
